---- MODULE Spec2Model ----
(***************************************************************************)
(* Model of chess_notation_converter.py: parse_descriptive_square,         *)
(* convert_move and convert_game.                                          *)
(*                                                                         *)
(* Texts are TLA+ strings handled character by character (Len, SubSeq,     *)
(* \o).  Python's None is the value None below and an uncaught ValueError  *)
(* is the value ValueError; neither can be a text the functions return     *)
(* (a resolved square has two characters, a converted move never ends in   *)
(* ">").                                                                   *)
(***************************************************************************)
EXTENDS Integers, Sequences, FiniteSets, TLC

VARIABLES
    pc,               \* "square" | "move" | "game" | "done" | "raised"
    text,             \* the argument: square_str, move_str or game_text
    is_white,         \* the colour argument of the two per-move functions
    ret,              \* the value returned (a text, None, or the record list)
    lines,            \* convert_game: the lines the loop has not yet visited
    algebraic_moves,  \* convert_game: the records built so far
    src,              \* history: for each record, the stripped line that made it
    plies,            \* history: for each record, the plies written into it
    dead              \* history: the branch of line 221 was taken

vars == <<pc, text, is_white, ret, lines, algebraic_moves, src, plies, dead>>

None == "<None>"
ValueError == "<ValueError>"

(***************************************************************************)
(* str methods                                                             *)
(***************************************************************************)
Char(s, i) == IF 1 <= i /\ i <= Len(s) THEN SubSeq(s, i, i) ELSE ""

Slice(s, i, j) == IF i > j THEN "" ELSE SubSeq(s, i, j)

\* str.strip() and \s: the white space of the model's alphabet
IsSpace(c) == c \in {" ", "\t", "\n", "\r", "\f"}

\* \d and int(): the decimal digits
IsDecimal(c) == c \in {"0", "1", "2", "3", "4", "5", "6", "7", "8", "9"}

\* U+00B2 SUPERSCRIPT TWO: str.isdigit() accepts it, \d and int() do not.  The
\* model writes it "^" (TLC's state queue keeps 7-bit characters only); "^" occurs
\* in no input in any other role.
SUP2 == "^"

IsDigitChar(c) == IsDecimal(c) \/ c = SUP2

RECURSIVE FirstNonSpace(_, _)
FirstNonSpace(s, i) ==
    IF i <= Len(s) /\ IsSpace(Char(s, i)) THEN FirstNonSpace(s, i + 1) ELSE i

RECURSIVE LastNonSpace(_, _)
LastNonSpace(s, j) ==
    IF j >= 1 /\ IsSpace(Char(s, j)) THEN LastNonSpace(s, j - 1) ELSE j

strip(s) == Slice(s, FirstNonSpace(s, 1), LastNonSpace(s, Len(s)))

startswith_at(s, i, t) ==
    /\ i >= 1
    /\ i + Len(t) - 1 <= Len(s)
    /\ Slice(s, i, i + Len(t) - 1) = t

startswith(s, t) == startswith_at(s, 1, t)

endswith(s, t) == startswith_at(s, Len(s) - Len(t) + 1, t)

\* t in s
Contains(s, t) == \E i \in 1..(Len(s) + 1) : startswith_at(s, i, t)

RECURSIVE replace_from(_, _, _, _)
replace_from(s, i, old, new) ==
    IF i > Len(s) THEN ""
    ELSE IF startswith_at(s, i, old)
         THEN new \o replace_from(s, i + Len(old), old, new)
         ELSE Char(s, i) \o replace_from(s, i + 1, old, new)

\* str.replace(old, new), old not empty
replace(s, old, new) == replace_from(s, 1, old, new)

RECURSIVE rstrip_chars(_, _)
rstrip_chars(s, chars) ==
    IF Len(s) > 0 /\ Char(s, Len(s)) \in chars
    THEN rstrip_chars(Slice(s, 1, Len(s) - 1), chars)
    ELSE s

LowerLetters == "abcdefghijklmnopqrstuvwxyz"
UpperLetters == "ABCDEFGHIJKLMNOPQRSTUVWXYZ"

ToUpper ==
    [c \in {Char(LowerLetters, k) : k \in 1..26} |->
        Char(UpperLetters, CHOOSE k \in 1..26 : Char(LowerLetters, k) = c)]

upper_char(c) == IF c \in DOMAIN ToUpper THEN ToUpper[c] ELSE c

RECURSIVE upper(_)
upper(s) == IF s = "" THEN "" ELSE upper_char(Char(s, 1)) \o upper(Tail(s))

RECURSIVE split_from(_, _, _, _)
split_from(s, i, start, sep) ==
    IF i > Len(s) THEN <<Slice(s, start, Len(s))>>
    ELSE IF Char(s, i) = sep
         THEN <<Slice(s, start, i - 1)>> \o split_from(s, i + 1, i + 1, sep)
         ELSE split_from(s, i + 1, start, sep)

\* str.split(sep) for a separator of one character
split(s, sep) == split_from(s, 1, 1, sep)

\* str.isdigit()
isdigit(s) == Len(s) > 0 /\ \A i \in 1..Len(s) : IsDigitChar(Char(s, i))

DigitValue(c) == CHOOSE d \in 0..9 : Char("0123456789", d + 1) = c

RECURSIVE int_from(_, _, _)
int_from(s, i, acc) ==
    IF i > Len(s) THEN acc ELSE int_from(s, i + 1, 10 * acc + DigitValue(Char(s, i)))

\* int(s) raises ValueError unless every character is a decimal digit
int_raises(s) == ~(Len(s) > 0 /\ \A i \in 1..Len(s) : IsDecimal(Char(s, i)))

int(s) == int_from(s, 1, 0)

RECURSIVE str_nat(_)
str_nat(n) ==
    IF n < 10 THEN Char("0123456789", n + 1)
    ELSE str_nat(n \div 10) \o Char("0123456789", (n % 10) + 1)

\* str(n)
str(n) == IF n < 0 THEN "-" \o str_nat(0 - n) ELSE str_nat(n)

(***************************************************************************)
(* The lookup tables                                                       *)
(***************************************************************************)
\* PIECES.get(k, default)
PIECES_keys == {"K", "Q", "R", "B", "N", "Kt", "P"}

PIECES_get(k, default) ==
    IF k \in {"K", "Q", "R", "B", "N"} THEN k
    ELSE IF k = "Kt" THEN "N"
    ELSE IF k = "P" THEN ""
    ELSE default

EXTENDED_PIECES_keys == {"KN", "QN", "KKt", "QKt", "KB", "QB", "KR", "QR"}

\* EXTENDED_PIECES[k] as <<piece, file>>
EXTENDED_PIECES(k) ==
    CASE k \in {"KN", "KKt"} -> <<"N", "g">>
      [] k \in {"QN", "QKt"} -> <<"N", "b">>
      [] k = "KB" -> <<"B", "f">>
      [] k = "QB" -> <<"B", "c">>
      [] k = "KR" -> <<"R", "h">>
      [] k = "QR" -> <<"R", "a">>

\* FILES.get(k)
FILES_get(k) ==
    CASE k = "QR" -> "a"
      [] k \in {"QN", "QKt"} -> "b"
      [] k = "QB" -> "c"
      [] k = "Q" -> "d"
      [] k = "K" -> "e"
      [] k = "KB" -> "f"
      [] k \in {"KN", "KKt"} -> "g"
      [] k = "KR" -> "h"
      [] OTHER -> None

(***************************************************************************)
(* parse_descriptive_square                                                *)
(***************************************************************************)
\* the file the ordered pattern list extracts, None when no pattern matches
file_desc(s) ==
    LET f == Slice(s, 1, Len(s) - 1)
    IN  IF Len(s) < 2 \/ ~IsDecimal(Char(s, Len(s))) THEN None
        ELSE IF f \in {"QR", "QKt", "QN", "QB", "KR", "KKt", "KN", "KB"} THEN f
        ELSE IF f \in {"Q", "K"} THEN f
        ELSE IF f = "R" THEN "KR"
        ELSE IF f = "N" THEN "KN"
        ELSE IF f = "B" THEN "KB"
        ELSE None

\* the rank taken over unmirrored for Black too
rank_alg_unmirrored(rank_desc, white) == str(int(rank_desc))

\* lines 65-69
rank_alg(rank_desc, white) ==
    IF white THEN str(int(rank_desc)) ELSE str(9 - int(rank_desc))

parse_descriptive_square(square_str, white) ==
    LET s == strip(square_str)
        fd == file_desc(s)
    IN  IF fd = None THEN None
        ELSE IF FILES_get(fd) = None THEN None
        ELSE FILES_get(fd) \o rank_alg(Char(s, Len(s)), white)

(***************************************************************************)
(* convert_move                                                            *)
(***************************************************************************)
\* lines 79-82: "O-O", "O-O-O" or None when the text is not castling
castling(move_str) ==
    LET u == upper(move_str)
    IN  IF u \in {"O-O", "0-0"} \/ Contains(u, "CASTLES KR") \/ u = "CASTLES K"
        THEN "O-O"
        ELSE IF u \in {"O-O-O", "0-0-0"} \/ Contains(u, "CASTLES QR")
                \/ u = "CASTLES Q"
        THEN "O-O-O"
        ELSE None

is_mate(move_str) == endswith(move_str, "++") \/ endswith(move_str, " mate")

is_check(move_str) ==
    endswith(move_str, "+") \/ endswith(move_str, "ch") \/ endswith(move_str, " ch")

\* lines 85-90: the marker re-appended to the result
check_suffix(move_str) ==
    IF is_mate(move_str) THEN "#" ELSE IF is_check(move_str) THEN "+" ELSE ""

\* lines 86-93: the working text with the marker removed
strip_check(move_str) ==
    IF is_mate(move_str)
    THEN rstrip_chars(replace(move_str, " mate", ""), {"+", "#"})
    ELSE IF is_check(move_str)
    THEN LET t == rstrip_chars(replace(move_str, " ch", ""), {"+"})
         IN  IF endswith(t, "ch") THEN Slice(t, 1, Len(t) - 2) ELSE t
    ELSE move_str

\* a match of \s*e\.?p\.? starting at i: the index after it, 0 when there is none
ep_match_end(s, i) ==
    LET j == FirstNonSpace(s, i)
        k == IF Char(s, j + 1) = "." THEN j + 2 ELSE j + 1
    IN  IF Char(s, j) = "e" /\ Char(s, k) = "p"
        THEN (IF Char(s, k + 1) = "." THEN k + 2 ELSE k + 1)
        ELSE 0

RECURSIVE sub_ep_from(_, _)
sub_ep_from(s, i) ==
    IF i > Len(s) THEN ""
    ELSE IF ep_match_end(s, i) # 0 THEN sub_ep_from(s, ep_match_end(s, i))
    ELSE Char(s, i) \o sub_ep_from(s, i + 1)

\* line 96: re.sub(r'\s*e\.?p\.?', '', move_str)
sub_ep(move_str) == sub_ep_from(move_str, 1)

PromoLetters == {"Q", "R", "B", "N"}

\* the pattern without its /X alternative
promo_len_noslash(s) ==
    LET n == Len(s)
    IN  IF Char(s, n - 2) = "(" /\ Char(s, n - 1) \in PromoLetters /\ Char(s, n) = ")"
        THEN 3
        ELSE IF Char(s, n - 1) = "=" /\ Char(s, n) \in PromoLetters
        THEN 2
        ELSE 0

\* line 100: the length of the match of \(([QRBN])\)$|=([QRBN])$|/([QRBN])$, 0 for
\* no match ($ is the end of the text: a move text holds no line break)
promo_len(s) ==
    LET n == Len(s)
    IN  IF Char(s, n - 2) = "(" /\ Char(s, n - 1) \in PromoLetters /\ Char(s, n) = ")"
        THEN 3
        ELSE IF Char(s, n - 1) \in {"=", "/"} /\ Char(s, n) \in PromoLetters
        THEN 2
        ELSE 0

\* line 102
promotion(s) ==
    CASE promo_len(s) = 3 -> "=" \o Char(s, Len(s) - 1)
      [] promo_len(s) = 2 -> "=" \o Char(s, Len(s))
      [] OTHER -> ""

\* line 103
strip_promotion(s) == Slice(s, 1, Len(s) - promo_len(s))

\* line 106
is_capture(s) == Contains(s, "x") \/ Contains(s, "X")

\* line 107: re.sub(r'[xX]', '-', move_str)
sub_capture(s) == replace(replace(s, "x", "-"), "X", "-")

\* line 122: the length of the piece letter when piece_part matches
\* ^(K|Q|R|B|N|Kt|P)\((.+)\)$, 0 when it does not
disambig_piece_len(piece_part) ==
    LET n == IF Char(piece_part, 1) \in {"K", "Q", "R", "B", "N", "P"}
                /\ Char(piece_part, 2) = "("
             THEN 1
             ELSE IF startswith(piece_part, "Kt(") THEN 2 ELSE 0
    IN  IF n > 0 /\ Len(piece_part) >= n + 3 /\ endswith(piece_part, ")")
           /\ ~Contains(Slice(piece_part, n + 2, Len(piece_part) - 1), "\n")
        THEN n
        ELSE 0

disambig_hint(piece_part) ==
    Slice(piece_part, disambig_piece_len(piece_part) + 2, Len(piece_part) - 1)

\* lines 128-136: the disambiguation a hint gives, ValueError when int() raises
hint_disambig(hint, white) ==
    IF isdigit(hint)
    THEN IF white THEN hint
         ELSE IF int_raises(hint) THEN ValueError ELSE str(9 - int(hint))
    ELSE IF FILES_get(hint) # None THEN FILES_get(hint) ELSE ""

\* lines 118-141: <<piece, disambig>> of the origin; disambig is ValueError when
\* int() raises
origin(piece_part, white) ==
    IF disambig_piece_len(piece_part) > 0
    THEN LET piece_char == Slice(piece_part, 1, disambig_piece_len(piece_part))
         IN  <<PIECES_get(piece_char, piece_char),
               hint_disambig(disambig_hint(piece_part), white)>>
    ELSE IF piece_part \in EXTENDED_PIECES_keys THEN EXTENDED_PIECES(piece_part)
    ELSE <<PIECES_get(piece_part, IF Len(piece_part) = 1 THEN piece_part ELSE ""), "">>

\* lines 149-150
CapturedNames ==
    PIECES_keys \cup {"P", "N", "B", "R", "Q", "Kt", "NP", "BP", "RP", "QP", "KP",
                      "QRP", "QNP", "QBP", "KBP", "KNP", "KRP"}

\* lines 162-167: pawn_files.get(piece_part, '')
pawn_files_get(piece_part) ==
    CASE piece_part = "QRP" -> "a"
      [] piece_part = "QNP" -> "b"
      [] piece_part = "QBP" -> "c"
      [] piece_part = "QP" -> "d"
      [] piece_part = "KP" -> "e"
      [] piece_part = "KBP" -> "f"
      [] piece_part = "KNP" -> "g"
      [] piece_part = "KRP" -> "h"
      [] OTHER -> ""

\* lines 160-167: the piece text of the result
result_piece(piece, piece_part, capture) ==
    IF piece = "" /\ capture THEN pawn_files_get(piece_part) ELSE piece

\* lines 147-154: the destination is no square
no_square(piece, dest_part, original) ==
    IF dest_part \in CapturedNames
    THEN piece \o "x" \o PIECES_get(dest_part, dest_part) \o "?"
    ELSE original \o "[?]"

\* lines 109-170: the text after castling, markers and promotion are dealt with
convert_parts(original, work, promo, check, capture, white) ==
    LET parts == split(work, "-")
    IN  IF Len(parts) # 2 THEN original \o "[?]"
        ELSE LET piece_part == strip(parts[1])
                 dest_part == strip(parts[2])
                 o == origin(piece_part, white)
                 dest_square == parse_descriptive_square(dest_part, white)
             IN  IF o[2] = ValueError THEN ValueError
                 ELSE IF dest_square = None
                 THEN no_square(o[1], dest_part, original)
                 ELSE result_piece(o[1], piece_part, capture) \o o[2]
                      \o (IF capture THEN "x" ELSE "") \o dest_square
                      \o promo \o check

convert_move(move_str, white) ==
    LET original == strip(move_str)
        castle == castling(original)
        s1 == sub_ep(strip_check(original))
        s2 == strip_promotion(s1)
    IN  IF castle # None THEN castle
        ELSE convert_parts(original, sub_capture(s2), promotion(s1),
                           check_suffix(original), is_capture(s2), white)

(***************************************************************************)
(* convert_game                                                            *)
(***************************************************************************)
IsSep(c, commas) == IsSpace(c) \/ (commas /\ c = ",")

RECURSIVE tokens_from(_, _, _, _)
tokens_from(s, i, start, commas) ==
    LET tok == IF start < i THEN <<Slice(s, start, i - 1)>> ELSE <<>>
    IN  IF i > Len(s) THEN tok
        ELSE IF IsSep(Char(s, i), commas)
        THEN tok \o tokens_from(s, i + 1, i + 1, commas)
        ELSE tokens_from(s, i + 1, start, commas)

\* the non-empty pieces between runs of \s (commas FALSE) or of [,\s] (commas TRUE)
tokens(s, commas) == tokens_from(s, 1, 1, commas)

RECURSIVE digits_len(_, _)
digits_len(s, n) ==
    IF IsDecimal(Char(s, n + 1)) THEN digits_len(s, n + 1) ELSE n

\* the length of the match of ^(\d+) at the start of the line
num_len(line) == digits_len(line, 0)

num(line) == Slice(line, 1, num_len(line))

after(line, k) == Slice(line, num_len(line) + k + 1, Len(line))

\* line 183: ^(\d+)\.\s*([^\s]+)\s+([^\s]+)$
two_match(line) ==
    /\ num_len(line) > 0
    /\ Char(line, num_len(line) + 1) = "."
    /\ Len(tokens(after(line, 1), FALSE)) = 2

\* line 192: ^(\d+)\.\s*([^\s]+)$
white_match(line) ==
    /\ num_len(line) > 0
    /\ Char(line, num_len(line) + 1) = "."
    /\ Len(tokens(after(line, 1), FALSE)) = 1

\* line 200: ^(\d+)\.\.\.\s*([^\s]+)$
black_match(line) ==
    /\ num_len(line) > 0
    /\ startswith_at(line, num_len(line) + 1, "...")
    /\ Len(tokens(after(line, 3), FALSE)) = 1

\* line 209: ^\d+\.?$
is_move_number(m) ==
    /\ num_len(m) > 0
    /\ (num_len(m) = Len(m) \/ (num_len(m) = Len(m) - 1 /\ endswith(m, ".")))

RECURSIVE drop_numbers(_)
drop_numbers(ms) ==
    IF ms = <<>> THEN <<>>
    ELSE IF is_move_number(Head(ms)) THEN drop_numbers(Tail(ms))
    ELSE <<Head(ms)>> \o drop_numbers(Tail(ms))

\* lines 208-209
fallback_moves(line) == drop_numbers(tokens(line, TRUE))

\* the colours alternating from Black
ply_is_white_odd(i) == i % 2 = 1

\* line 212
ply_is_white(i) == i % 2 = 0

\* the loop's local state: the records, their history, and whether it raised
append_record(st, line, rec, n) ==
    [st EXCEPT !.moves = Append(@, rec), !.src = Append(@, line),
               !.plies = Append(@, n)]

raise(st) == [st EXCEPT !.raised = TRUE]

\* lines 211-221
RECURSIVE fallback(_, _, _, _)
fallback(ms, i, line, st) ==
    IF i >= Len(ms) THEN st
    ELSE LET alg == convert_move(ms[i + 1], ply_is_white(i))
             move_num == Len(st.moves) + 1
         IN  IF alg = ValueError THEN raise(st)
             ELSE IF ply_is_white(i)
             THEN fallback(ms, i + 1, line,
                      append_record(st, line, str(move_num) \o ". " \o alg, 1))
             ELSE IF st.moves # <<>>
             THEN fallback(ms, i + 1, line,
                      [st EXCEPT !.moves[Len(st.moves)] = @ \o " " \o alg,
                                 !.plies[Len(st.moves)] = @ + 1])
             ELSE fallback(ms, i + 1, line,
                      append_record([st EXCEPT !.dead = TRUE], line,
                                    "1... " \o alg, 1))

\* lines 184-189
two_moves(line, st) ==
    LET toks == tokens(after(line, 1), FALSE)
        white_alg == convert_move(toks[1], TRUE)
        black_alg == convert_move(toks[2], FALSE)
    IN  IF white_alg = ValueError \/ black_alg = ValueError THEN raise(st)
        ELSE append_record(st, line,
                 num(line) \o ". " \o white_alg \o " " \o black_alg, 2)

\* lines 193-197
white_only(line, st) ==
    LET white_alg == convert_move(tokens(after(line, 1), FALSE)[1], TRUE)
    IN  IF white_alg = ValueError THEN raise(st)
        ELSE append_record(st, line, num(line) \o ". " \o white_alg, 1)

\* lines 201-205
black_only(line, st) ==
    LET black_alg == convert_move(tokens(after(line, 3), FALSE)[1], FALSE)
    IN  IF black_alg = ValueError THEN raise(st)
        ELSE append_record(st, line, num(line) \o "... " \o black_alg, 1)

\* lines 178-180
skipped(line) == line = "" \/ startswith(line, "#")

\* lines 178-221: one iteration of the loop over the lines
loop_body(line, st) ==
    IF skipped(line) THEN st
    ELSE IF two_match(line) THEN two_moves(line, st)
    ELSE IF white_match(line) THEN white_only(line, st)
    ELSE IF black_match(line) THEN black_only(line, st)
    ELSE fallback(fallback_moves(line), 0, line, st)

(***************************************************************************)
(* The inputs                                                              *)
(***************************************************************************)
MaxHint == 10
MaxLines == 3

SquareFiles ==
    {"QR", "QN", "QKt", "QB", "Q", "K", "KB", "KN", "KKt", "KR",
     "R", "N", "B", "P", "Z", ""}

SquareRanks == {"0", "1", "2", "3", "4", "5", "6", "7", "8", "9", "", "10"}

SquareInputs ==
    {pad \o f \o r \o pad : pad \in {"", " "}, f \in SquareFiles, r \in SquareRanks}

PawnOrigins == {"QRP", "QNP", "QBP", "QP", "KP", "KBP", "KNP", "KRP"}

Origins ==
    {"P", "N", "Kt", "B", "R", "Q", "K", "Z", "zz", "KN", "QB", "QKt",
     "R(QR1)", "R(QR)", "N(Q4)", "Kt(KKt)", "R(" \o SUP2 \o ")"}
    \cup PawnOrigins
    \cup {"R(" \o str(n) \o ")" : n \in 0..MaxHint}

Separators == {"-", "x", "", "-x-"}

Destinations ==
    {f \o r : f \in {"K", "Q", "KKt", "B", "N", "P", "QP", "Z"},
              r \in {"", "1", "4"}}

PromoForms == {<<"(", ")">>, <<"=", "">>, <<"/", "">>}

Checks == {"+", "ch", " ch"}
Mates == {"++", " mate"}
Suffixes == {"", " e.p."} \cup Checks \cup Mates

PromoSquares ==
    {f \o r : f \in SquareFiles \ {"Z", ""},
              r \in {"0", "1", "2", "3", "4", "5", "6", "7", "8", "9"}}

CastlingInputs ==
    {"O-O", "o-o", "0-0", "O-O-O", "0-0-0", "Castles KR", "castles K",
     "Castles QR", "CASTLES Q", "O-O+", " O-O "}

MoveInputs ==
    {o \o sep \o d \o suf :
        o \in Origins, sep \in Separators, d \in Destinations, suf \in Suffixes}
    \cup {"P-" \o d \o f[1] \o x \o f[2] :
            d \in PromoSquares, f \in PromoForms, x \in PromoLetters \cup {"K"}}
    \cup {"QBPx" \o d \o f[1] \o x \o f[2] \o suf :
            d \in {"K8", "Q1"}, f \in PromoForms, x \in PromoLetters,
            suf \in {"", "+"}}
    \cup CastlingInputs

LineChoices ==
    {"1. P-K4 P-K4", "2. Kt-KB3", "2... N-QB3",
     "5. P-K4 P-K4 6. N-KB3 N-QB3", "P-Q4, P-Q4 BxN", "",
     "# note", "7.", "8. P-K-4-5", "9. P-K4 R(" \o SUP2 \o ")-K4"}

RECURSIVE join(_, _)
join(ls, sep) ==
    IF Len(ls) = 0 THEN ""
    ELSE IF Len(ls) = 1 THEN ls[1]
    ELSE ls[1] \o sep \o join(Tail(ls), sep)

GameInputs ==
    {join(ls, "\n") : ls \in UNION {[1..n -> LineChoices] : n \in 1..MaxLines}}

(***************************************************************************)
(* The calls                                                               *)
(***************************************************************************)
Idle ==
    /\ ret = None
    /\ lines = <<>>
    /\ algebraic_moves = <<>>
    /\ src = <<>>
    /\ plies = <<>>
    /\ dead = FALSE

InitSquare ==
    /\ pc = "square"
    /\ text \in SquareInputs
    /\ is_white \in BOOLEAN
    /\ Idle

InitMove ==
    /\ pc = "move"
    /\ text \in MoveInputs
    /\ is_white \in BOOLEAN
    /\ Idle

\* lines 174-175
InitGame ==
    /\ pc = "game"
    /\ text \in GameInputs
    /\ is_white = TRUE
    /\ ret = None
    /\ lines = split(strip(text), "\n")
    /\ algebraic_moves = <<>>
    /\ src = <<>>
    /\ plies = <<>>
    /\ dead = FALSE

ParseSquare ==
    /\ pc = "square"
    /\ ret' = parse_descriptive_square(text, is_white)
    /\ pc' = "done"
    /\ UNCHANGED <<text, is_white, lines, algebraic_moves, src, plies, dead>>

ConvertMove ==
    /\ pc = "move"
    /\ LET r == convert_move(text, is_white)
       IN  IF r = ValueError
           THEN pc' = "raised" /\ ret' = ret
           ELSE pc' = "done" /\ ret' = r
    /\ UNCHANGED <<text, is_white, lines, algebraic_moves, src, plies, dead>>

\* lines 177-221: the loop visits the next line
ProcessLine ==
    /\ pc = "game"
    /\ lines # <<>>
    /\ LET st == loop_body(strip(Head(lines)),
                     [moves |-> algebraic_moves, src |-> src, plies |-> plies,
                      dead |-> dead, raised |-> FALSE])
       IN  IF st.raised
           THEN /\ pc' = "raised"
                /\ UNCHANGED <<lines, algebraic_moves, src, plies, dead>>
           ELSE /\ pc' = "game"
                /\ lines' = Tail(lines)
                /\ algebraic_moves' = st.moves
                /\ src' = st.src
                /\ plies' = st.plies
                /\ dead' = st.dead
    /\ UNCHANGED <<text, is_white, ret>>

\* line 223
Return ==
    /\ pc = "game"
    /\ lines = <<>>
    /\ pc' = "done"
    /\ ret' = algebraic_moves
    /\ UNCHANGED <<text, is_white, lines, algebraic_moves, src, plies, dead>>

NextSquare == ParseSquare
NextMove == ConvertMove
NextGame == ProcessLine \/ Return

SpecSquare == InitSquare /\ [][NextSquare]_vars
SpecMove == InitMove /\ [][NextMove]_vars
SpecGame == InitGame /\ [][NextGame]_vars

Init == InitSquare \/ InitMove \/ InitGame
Next == ParseSquare \/ ConvertMove \/ ProcessLine \/ Return
Spec == Init /\ [][Next]_vars

(***************************************************************************)
(* The claims                                                              *)
(***************************************************************************)
CanonicalFiles == {"QR", "QN", "QB", "Q", "K", "KB", "KN", "KR"}

\* the table the specification gives: QR=a, QN=b, QB=c, Q=d, K=e, KB=f, KN=g, KR=h
FileLetter(f) ==
    CASE f = "QR" -> "a" [] f = "QN" -> "b" [] f = "QB" -> "c" [] f = "Q" -> "d"
      [] f = "K" -> "e" [] f = "KB" -> "f" [] f = "KN" -> "g" [] f = "KR" -> "h"

\* C1: for every canonical file f and rank digit r in 1..8,
\* parse_descriptive_square(f+r, is_white) is the table's file letter for f
\* followed by r for White and by 9-r for Black.
C1_SquareMapping ==
    \A f \in CanonicalFiles, r \in 1..8 :
        (pc = "done" /\ text = f \o str(r))
            => ret = FileLetter(f) \o str(IF is_white THEN r ELSE 9 - r)

C1_Witness == pc = "done" /\ text = "QB3" /\ ~is_white /\ ret = "c6"

\* C2: convert_move never raises, whatever the move text and the colour,
\* origins Letter(hint) with a hint that passes the numeric test included.
C2_NeverRaises == pc # "raised"

\* a line "<N>... <blackMove>": digits, three dots, white space, one move token
IsBlackOnlyLine(line) ==
    /\ black_match(line)
    /\ IsSpace(Char(line, num_len(line) + 4))

\* C3: a line "<N>... <blackMove>" makes exactly the record "<N>... <alg>",
\* <alg> being convert_move(blackMove, is_white=False).
C3_BlackOnlyRecord ==
    \A k \in 1..Len(algebraic_moves) :
        IsBlackOnlyLine(src[k])
            => algebraic_moves[k] =
                   num(src[k]) \o "... "
                   \o convert_move(tokens(after(src[k], 3), FALSE)[1], FALSE)

\* the file letters of the pawn origins: QRP=a, QNP=b, ..., KRP=h
PawnFileLetter(o) == FileLetter(Slice(o, 1, Len(o) - 1))

\* C4: a capture whose origin is one of QRP .. KRP and whose destination the
\* translator accepts (a square or a piece name) gives a result that begins
\* with the origin's file letter; "QBPxQP" for White begins with "c".
C4_PawnCaptureFile ==
    \A o \in PawnOrigins :
        (pc = "done" /\ startswith(text, o \o "x") /\ ~endswith(ret, "[?]"))
            => startswith(ret, PawnFileLetter(o))

\* C5: convert_move("R(QR1)-Q1", is_white=True) returns "Rad1".
C5_HintSquare ==
    (pc = "done" /\ text = "R(QR1)-Q1" /\ is_white) => ret = "Rad1"

Chop(s, k) == Slice(s, 1, Len(s) - k)

\* C6: for a base move m that is not castling, m+"+", m+"ch" and m+" ch"
\* convert to one string, which ends with "+", and m+"++" and m+" mate"
\* convert to one string, which ends with "#".
C6_SuffixEquivalence ==
    /\ (pc = "done" /\ endswith(text, "+") /\ ~endswith(text, "++")
            /\ castling(strip(Chop(text, 1))) = None)
        => /\ ret = convert_move(Chop(text, 1) \o "ch", is_white)
           /\ ret = convert_move(Chop(text, 1) \o " ch", is_white)
           /\ endswith(ret, "+")
    /\ (pc = "done" /\ endswith(text, "++")
            /\ castling(strip(Chop(text, 2))) = None)
        => /\ ret = convert_move(Chop(text, 2) \o " mate", is_white)
           /\ endswith(ret, "#")

\* the move numbers written in a line: the digits of every token that is a
\* number, or a number followed by a dot and more
SourceNumbers(line) ==
    LET toks == tokens(line, TRUE)
    IN  {num(toks[i]) : i \in {j \in 1..Len(toks) :
            /\ num_len(toks[j]) > 0
            /\ (num_len(toks[j]) = Len(toks[j])
                \/ Char(toks[j], num_len(toks[j]) + 1) = ".")}}

\* C7: every record carries a move number written in its source line whenever
\* that line holds one, lines handled by the fallback tokenizer included.
C7_SourceNumbers ==
    \A k \in 1..Len(algebraic_moves) :
        SourceNumbers(src[k]) # {} => num(algebraic_moves[k]) \in SourceNumbers(src[k])

\* the working text convert_move splits on the hyphen
work(move_str) ==
    sub_capture(strip_promotion(sub_ep(strip_check(strip(move_str)))))

\* a non-castling move text that does not reduce to exactly one hyphen
Malformed(move_str) ==
    /\ castling(strip(move_str)) = None
    /\ Len(split(work(move_str), "-")) # 2

\* a line with a malformed move token (a token that starts with a digit belongs
\* to the move number)
HasMalformed(line) ==
    \E i \in 1..Len(tokens(line, TRUE)) :
        /\ num_len(tokens(line, TRUE)[i]) = 0
        /\ Malformed(tokens(line, TRUE)[i])

InputLines == split(strip(text), "\n")

\* a line that is not blank, not a comment, and holds a move token
HoldsMove(line) == ~skipped(line) /\ fallback_moves(line) # <<>>

\* C8, for convert_move alone: a malformed move text converts to the trimmed
\* text followed by "[?]".
C8_MalformedMarked ==
    (pc \in {"done", "raised"} /\ Malformed(text))
        => (pc = "done" /\ ret = strip(text) \o "[?]")

\* C8: once a line with a malformed move has its record, convert_game goes on
\* to return, with a record for every line that holds a move.
C8_GameContinues ==
    (\E k \in 1..Len(src) : HasMalformed(src[k]))
        => /\ pc # "raised"
           /\ pc = "done"
                => \A j \in 1..Len(InputLines) :
                       HoldsMove(strip(InputLines[j]))
                           => \E k \in 1..Len(src) : src[k] = strip(InputLines[j])

\* C9: for a pawn move "P-<square>" with a resolvable square, the forms
\* "P-<square>(X)", "P-<square>=X" and "P-<square>/X", X in {Q,R,B,N}, all
\* convert to "<algebraicSquare>=X"; for White "P-K8(Q)", "P-K8=Q" and
\* "P-K8/Q" give "e8=Q".
C9_PromotionForms ==
    /\ (pc = "done" /\ is_white /\ text \in {"P-K8(Q)", "P-K8=Q", "P-K8/Q"})
        => ret = "e8=Q"
    /\ (pc = "done" /\ startswith(text, "P-"))
        => \A f \in PromoForms, x \in PromoLetters :
               LET form == f[1] \o x \o f[2]
                   d == Slice(text, 3, Len(text) - Len(form))
               IN  (endswith(text, form)
                        /\ parse_descriptive_square(d, is_white) # None)
                       => ret = parse_descriptive_square(d, is_white) \o "=" \o x

C9_Witness ==
    pc = "done" /\ ~is_white /\ text = "P-QB8/N" /\ ret = "c1=N"

\* C10: a step of convert_game keeps every record of the earlier lines as it
\* is (records are only appended; a Black ply of the fallback goes into the
\* record its own line has just made), no record ever holds more than two
\* plies, and the branch emitting "1... <alg>" is never taken.
C10_RecordsFrame ==
    [][/\ Len(algebraic_moves') >= Len(algebraic_moves)
       /\ \A k \in 1..Len(algebraic_moves) : algebraic_moves'[k] = algebraic_moves[k]
       /\ \A k \in 1..Len(plies') : plies'[k] <= 2
       /\ ~dead']_vars

C10_Witness ==
    \E k \in 2..Len(algebraic_moves) :
        /\ plies[k] = 2
        /\ ~two_match(src[k])
        /\ src[k - 1] # src[k]

====
